---- MODULE Spec2Model ----
(***************************************************************************)
(* A model of apathy::Path (src/path.hpp): the lexical path algebra        *)
(* (trim, append, join, absolute, sanitize, up/parent, operator+) and the  *)
(* recursive tree operations (touch, makedirs, rmdirs, listdir) over a     *)
(* small POSIX file system.                                                *)
(*                                                                         *)
(* A path buffer (std::string) is a sequence of one-character strings.     *)
(* Positions are 0-based as in the source; s[i+1] reads the character at   *)
(* position i.                                                             *)
(***************************************************************************)
EXTENDS Integers, Sequences, FiniteSets, TLC

VARIABLES
    path,      \* Path::path of the receiver object
    wd,        \* the buffer getcwd() yields (empty when getcwd() fails)
    op,        \* the operation applied last
    prevop,    \* the operation applied before it
    prev,      \* the receiver's buffer before the last operation
    arg,       \* the argument of the last operation
    res,       \* the buffer of the Path the last operation returned
    tree,      \* the file system
    ptree,     \* the file system before the last operation
    ret,       \* what the last operation returning a bool returned
    cout,      \* the paths the last tree operation reported on std::cout
    flags,     \* ignore_errors of the last operation, and readdir()'s order
    steps,     \* the tree operations applied so far
    calls      \* the activations of Path::makedirs in progress, outermost first

pathVars == <<path, wd, prev, res>>

treeVars == <<tree, ptree, ret, cout, flags, steps, calls>>

vars == <<path, wd, op, prevop, prev, arg, res, tree, ptree, ret, cout, flags,
          steps, calls>>

(***************************************************************************)
(* Bounds of the model                                                     *)
(***************************************************************************)
\* longest buffer enumerated as an initial receiver
MaxLen == 7
\* longest buffer enumerated as an argument of append / operator+
MaxSegLen == 2
\* append and operator+ are applied while the result stays this short
MaxBuf == 5
\* the tree operations of one run
MaxSteps == 3
\* the activations of Path::makedirs a run may nest
MaxCalls == 6
\* longest buffer enumerated as an operand of equivalent
MaxQueryLen == 3

(***************************************************************************)
(* std::string helpers                                                     *)
(***************************************************************************)
separator == "/"

\* std::string::npos
npos == -1

\* std::string::find(c, from): first position >= from holding c
RECURSIVE find(_, _, _)
find(s, c, from) ==
    IF from >= Len(s) THEN npos
    ELSE IF s[from + 1] = c THEN from
    ELSE find(s, c, from + 1)

\* std::string::rfind(c): last position holding c
RECURSIVE rfindFrom(_, _, _)
rfindFrom(s, c, i) ==
    IF i < 0 THEN npos
    ELSE IF s[i + 1] = c THEN i
    ELSE rfindFrom(s, c, i - 1)

rfind(s, c) == rfindFrom(s, c, Len(s) - 1)

\* std::string::substr(pos, n) and std::string::substr(pos)
substr(s, pos, n) == SubSeq(s, pos + 1, pos + n)

substrFrom(s, pos) == SubSeq(s, pos + 1, Len(s))

\* std::string::erase(pos): drops everything from position pos on
erase(s, pos) == SubSeq(s, 1, pos)

(***************************************************************************)
(* Path: tests and manipulators                                            *)
(***************************************************************************)
is_absolute(p) == Len(p) # 0 /\ p[1] = separator

\* size_t arithmetic wraps at 2^SizeWidth.  The width of a build (32 or 64)
\* is beyond the integers of the model checker; every width above the
\* longest buffer gives the same results.
SizeWidth == 30

\* the conversion of an integer to size_t; std::string::npos is size_t(-1)
size_t(n) == n % (2 ^ SizeWidth)

\* the loop of Path::trim, i counting from 1
RECURSIVE trimLoop(_, _, _)
trimLoop(p, length, i) ==
    IF i <= length /\ p[length - i + 1] = separator
    THEN trimLoop(erase(p, length - i), length, i + 1)
    ELSE p

trim(p) == IF Len(p) = 0 THEN p ELSE trimLoop(p, Len(p), 1)

append(p, segment) == trim(p) \o <<separator>> \o segment

directory(p) == trim(p) \o <<separator>>

trailing_slash(p) == size_t(rfind(p, separator)) = size_t(Len(p) - 1)

\* a join that keeps the trailing separators of a
joinNoTrim(a, b) == a \o <<separator>> \o b

join(a, b) == append(a, b)

relative(p, rel) == IF ~is_absolute(rel) THEN append(p, rel) ELSE rel

\* Path::cwd(), buf being what getcwd() yields: when getcwd() fails the Path
\* stays empty, and directory() makes it "/"
cwd(buf) == directory(buf)

absolute(p, buf) == IF ~is_absolute(p) THEN join(cwd(buf), p) ELSE p

\* the inner for loop of Path::sanitize: advance end over separators
RECURSIVE skipSeparators(_, _)
skipSeparators(p, end) ==
    IF end < Len(p) /\ p[end + 1] = separator
    THEN skipSeparators(p, end + 1)
    ELSE end

\* the while loop of Path::sanitize from position end0 with the segments
\* collected so far; restart is set where the source returns
\* absolute().sanitize()
RECURSIVE scanSegments(_, _, _)
scanSegments(p, end0, segments) ==
    LET end == skipSeparators(p, end0) IN
    IF end = Len(p)
    THEN [restart |-> FALSE, segments |-> Append(segments, <<>>)]
    ELSE
      LET pos == find(p, separator, end)
          segment == IF pos = npos THEN substrFrom(p, end)
                     ELSE substr(p, end, pos - end)
          popped == IF Len(segments) # 0
                    THEN SubSeq(segments, 1, Len(segments) - 1)
                    ELSE segments
          next == IF segment = <<".", ".">> THEN popped
                  ELSE IF segment # <<".">> THEN Append(segments, segment)
                  ELSE segments
      IN IF segment = <<".", ".">> /\ Len(segments) = 0 /\ ~is_absolute(p)
         THEN [restart |-> TRUE, segments |-> segments]
         ELSE IF pos = npos
         THEN [restart |-> FALSE, segments |-> next]
         ELSE scanSegments(p, pos + 1, next)

\* the final for loop of Path::sanitize: segments joined by separators
RECURSIVE joinSegments(_, _)
joinSegments(segments, pos) ==
    IF pos >= Len(segments) THEN <<>>
    ELSE segments[pos + 1]
         \o (IF pos < Len(segments) - 1 THEN <<separator>> ELSE <<>>)
         \o joinSegments(segments, pos + 1)

\* a seed that forgets the root of an absolute path
sanitizeSeedNoRoot(p, buf) ==
    IF find(p, ".", 0) = 0 THEN cwd(buf) ELSE <<>>

\* the buffer Path::sanitize re-seeds before joining the segments
sanitizeSeed(p, buf) ==
    IF find(p, ".", 0) = 0 THEN cwd(buf)
    ELSE IF is_absolute(p) THEN <<separator>>
    ELSE <<>>

RECURSIVE sanitize(_, _)
sanitize(p, buf) ==
    LET scan == scanSegments(p, 0, <<>>) IN
    IF scan.restart THEN sanitize(absolute(p, buf), buf)
    ELSE sanitizeSeed(p, buf) \o joinSegments(scan.segments, 0)

\* an up that does not make its result a directory
upNoDirectory(p, buf) ==
    LET t == trim(sanitize(absolute(p, buf), buf))
        pos == rfind(t, separator)
    IN IF pos # npos THEN erase(t, pos) ELSE t

up(p, buf) ==
    LET t == trim(sanitize(absolute(p, buf), buf))
        pos == rfind(t, separator)
    IN directory(IF pos # npos THEN erase(t, pos) ELSE t)

\* a parent that cuts nothing off
parentSelf(p, buf) == directory(p)

parent(p, buf) == up(p, buf)

\* Path::operator+ : the result starts as a default-constructed Path
plus(p, segment) == append(<<>>, segment)

\* an equivalent that compares the sanitized buffers as they are given
equivalentNoAbsolute(p, other, buf) == sanitize(p, buf) = sanitize(other, buf)

equivalent(p, other, buf) ==
    sanitize(absolute(p, buf), buf) = sanitize(absolute(other, buf), buf)

(***************************************************************************)
(* The file system the tree operations act on.  A node is the sequence of  *)
(* names from the root; fs.dirs and fs.files hold the directories and the  *)
(* regular files, fs.alive tells whether the working directory of the      *)
(* process is still linked (a removed working directory stays the start    *)
(* of relative lookups, but nothing can be found or created in it, and     *)
(* getcwd() fails).  Removing an entry of fs.stuck fails (EPERM);          *)
(* creating or removing an entry inside a directory of fs.readonly fails   *)
(* (EACCES).                                                               *)
(***************************************************************************)
Root == <<>>

\* the working directory of the process: "/a"
CwdNode == << <<"a">> >>

CwdBuf == <<"/", "a">>

\* readdir() yields the names in this order, or in the reverse one
NameOrder == << <<"a">>, <<"b">> >>

Dot == <<".">>

DotDot == <<".", ".">>

\* the names of p between its separators
RECURSIVE componentsLoop(_, _, _, _)
componentsLoop(p, i, cur, acc) ==
    IF i > Len(p) THEN (IF cur = <<>> THEN acc ELSE Append(acc, cur))
    ELSE IF p[i] = separator
    THEN componentsLoop(p, i + 1, <<>>,
                        IF cur = <<>> THEN acc ELSE Append(acc, cur))
    ELSE componentsLoop(p, i + 1, Append(cur, p[i]), acc)

components(p) == componentsLoop(p, 1, <<>>, <<>>)

nodeParent(n) == IF n = Root THEN Root ELSE SubSeq(n, 1, Len(n) - 1)

\* a place reached by a lookup: the node, and whether it is linked
linked(n) == [n |-> n, live |-> TRUE]

lookupStart(fs, p) ==
    IF Len(p) # 0 /\ p[1] = separator THEN linked(Root)
    ELSE [n |-> CwdNode, live |-> fs.alive]

\* walk names that must all be directories, from the directory cur
RECURSIVE walkDirs(_, _, _)
walkDirs(fs, cur, names) ==
    IF names = <<>> THEN [err |-> "", cur |-> cur]
    ELSE LET c == Head(names) IN
         IF c = Dot THEN walkDirs(fs, cur, Tail(names))
         ELSE IF c = DotDot
         THEN walkDirs(fs, linked(nodeParent(cur.n)), Tail(names))
         ELSE IF ~cur.live THEN [err |-> "ENOENT", cur |-> cur]
         ELSE IF Append(cur.n, c) \in fs.dirs
         THEN walkDirs(fs, linked(Append(cur.n, c)), Tail(names))
         ELSE IF Append(cur.n, c) \in fs.files
         THEN [err |-> "ENOTDIR", cur |-> cur]
         ELSE [err |-> "ENOENT", cur |-> cur]

\* the last name of a lookup, the names before it having led to w.cur
lookupLast(fs, p, w, last) ==
    IF w.err # ""
    THEN [err |-> w.err, kind |-> "none", at |-> w.cur, dir |-> w.cur,
          last |-> last]
    ELSE IF last = Dot
    THEN [err |-> "", kind |-> "dir", at |-> w.cur, dir |-> w.cur,
          last |-> last]
    ELSE IF last = DotDot
    THEN [err |-> "", kind |-> "dir", at |-> linked(nodeParent(w.cur.n)),
          dir |-> w.cur, last |-> last]
    ELSE IF w.cur.live /\ Append(w.cur.n, last) \in fs.dirs
    THEN [err |-> "", kind |-> "dir", at |-> linked(Append(w.cur.n, last)),
          dir |-> w.cur, last |-> last]
    ELSE IF w.cur.live /\ Append(w.cur.n, last) \in fs.files
    THEN [err |-> IF p[Len(p)] = separator THEN "ENOTDIR" ELSE "",
          kind |-> "file", at |-> linked(Append(w.cur.n, last)),
          dir |-> w.cur, last |-> last]
    ELSE [err |-> "", kind |-> "none", at |-> linked(Append(w.cur.n, last)),
          dir |-> w.cur, last |-> last]

lookupNames(fs, p, names) ==
    IF p = <<>>
    THEN [err |-> "ENOENT", kind |-> "none", at |-> linked(Root),
          dir |-> linked(Root), last |-> <<>>]
    ELSE IF names = <<>>
    THEN [err |-> "", kind |-> "dir", at |-> linked(Root),
          dir |-> linked(Root), last |-> <<>>]
    ELSE lookupLast(fs, p,
                    walkDirs(fs, lookupStart(fs, p),
                             SubSeq(names, 1, Len(names) - 1)),
                    names[Len(names)])

\* path resolution: kind is "dir", "file" or "none" (the last name is
\* missing in the directory dir); at is the place found; last is the last
\* name of p
lookup(fs, p) == lookupNames(fs, p, components(p))

\* stat(2): what is found at the end of a lookup
statKind(l) == IF l.err = "" THEN l.kind ELSE "none"

exists(fs, p) == statKind(lookup(fs, p)) # "none"

is_file(fs, p) == statKind(lookup(fs, p)) = "file"

is_directory(fs, p) == statKind(lookup(fs, p)) = "dir"

\* getcwd(3): the buffer, empty when it fails
getcwd(fs) == IF fs.alive THEN CwdBuf ELSE <<>>

hasChildren(fs, n) ==
    \E m \in fs.dirs \cup fs.files : Len(m) = Len(n) + 1 /\ nodeParent(m) = n

failed(fs, e) == [ok |-> FALSE, errno |-> e, fs |-> fs]

succeeded(fs) == [ok |-> TRUE, errno |-> "", fs |-> fs]

mkdirAt(fs, l) ==
    IF l.kind # "none" /\ l.err \in {"", "ENOTDIR"} THEN failed(fs, "EEXIST")
    ELSE IF l.err # "" THEN failed(fs, l.err)
    ELSE IF ~l.dir.live THEN failed(fs, "ENOENT")
    ELSE IF l.dir.n \in fs.readonly THEN failed(fs, "EACCES")
    ELSE succeeded([fs EXCEPT !.dirs = @ \cup {l.at.n}])

\* mkdir(2)
mkdir(fs, p) == mkdirAt(fs, lookup(fs, p))

openCreateAt(fs, p, dirOpens, l) ==
    IF l.err # "" THEN failed(fs, l.err)
    ELSE IF l.kind = "file" THEN succeeded(fs)
    ELSE IF l.kind = "dir"
    THEN IF dirOpens THEN succeeded(fs) ELSE failed(fs, "EISDIR")
    ELSE IF p[Len(p)] = separator THEN failed(fs, "EISDIR")
    ELSE IF ~l.dir.live THEN failed(fs, "ENOENT")
    ELSE IF l.dir.n \in fs.readonly THEN failed(fs, "EACCES")
    ELSE succeeded([fs EXCEPT !.files = @ \cup {l.at.n}])

\* open(2) with O_RDONLY | O_CREAT, and the close(2) of the descriptor;
\* dirOpens: whether the system opens an existing directory under O_CREAT
\* (POSIX) or refuses with EISDIR (Linux)
openCreate(fs, p, dirOpens) == openCreateAt(fs, p, dirOpens, lookup(fs, p))

removeAt(fs, l) ==
    IF l.err # "" THEN failed(fs, l.err)
    ELSE IF l.kind = "none" THEN failed(fs, "ENOENT")
    ELSE IF l.kind = "file"
    THEN IF l.at.n \in fs.stuck THEN failed(fs, "EPERM")
         ELSE IF l.dir.n \in fs.readonly THEN failed(fs, "EACCES")
         ELSE succeeded([fs EXCEPT !.files = @ \ {l.at.n}])
    ELSE IF l.last = Dot THEN failed(fs, "EINVAL")
    ELSE IF l.last = DotDot THEN failed(fs, "ENOTEMPTY")
    ELSE IF l.at.n = Root THEN failed(fs, "EBUSY")
    ELSE IF hasChildren(fs, l.at.n) THEN failed(fs, "ENOTEMPTY")
    ELSE IF l.at.n \in fs.stuck THEN failed(fs, "EPERM")
    ELSE IF nodeParent(l.at.n) \in fs.readonly THEN failed(fs, "EACCES")
    ELSE succeeded([fs EXCEPT !.dirs = @ \ {l.at.n},
                              !.alive = @ /\ l.at.n # CwdNode])

\* remove(3): unlink(2) of a file, rmdir(2) of a directory
remove(fs, p) == removeAt(fs, lookup(fs, p))

reverse(s) == [i \in 1..Len(s) |-> s[Len(s) + 1 - i]]

readdirAt(fs, l, rev) ==
    LET here(name) ==
            l.at.live /\ Append(l.at.n, name) \in fs.dirs \cup fs.files
    IN
    IF l.err # "" \/ l.kind # "dir" THEN [ok |-> FALSE, names |-> <<>>]
    ELSE [ok |-> TRUE,
          names |-> <<Dot, DotDot>>
                    \o SelectSeq(IF rev THEN reverse(NameOrder) ELSE NameOrder,
                                 here)]

\* opendir(3) and the readdir(3) calls up to NULL: the entries of the
\* directory, "." and ".." first; ok is FALSE when opendir() yields NULL
readdir(fs, p, rev) == readdirAt(fs, lookup(fs, p), rev)

(***************************************************************************)
(* The tree operations.  Each yields the file system it leaves, what it    *)
(* returns (ret) and the paths it reports on std::cout (out).              *)
(***************************************************************************)
\* the for loop of Path::listdir over the entries readdir() yields
RECURSIVE listdirLoop(_, _, _)
listdirLoop(base, names, i) ==
    IF i > Len(names) THEN <<>>
    ELSE IF names[i] = DotDot THEN listdirLoop(base, names, i + 1)
    ELSE IF names[i] = Dot THEN listdirLoop(base, names, i + 1)
    ELSE <<relative(base, names[i])>> \o listdirLoop(base, names, i + 1)

listdirOf(base, dir) ==
    IF ~dir.ok THEN <<>> ELSE listdirLoop(base, dir.names, 1)

listdirBase(fs, base, rev) == listdirOf(base, readdir(fs, base, rev))

listdir(fs, p, rev) == listdirBase(fs, absolute(p, getcwd(fs)), rev)

\* what a tree operation returns after a last primitive
returned(last) == [fs |-> last.fs, ret |-> last.ok]

RECURSIVE makedirs(_, _)

\* a makedirs that does not make the missing parents
makedirsRetryFlat(fs, abs, first) ==
    IF first.ok THEN returned(first)
    ELSE IF first.errno = "EEXIST"
    THEN [fs |-> fs, ret |-> is_directory(fs, abs)]
    ELSE [fs |-> fs, ret |-> FALSE]

\* Path::makedirs after its first mkdir()
makedirsRetry(fs, abs, first) ==
    IF first.ok THEN returned(first)
    ELSE IF first.errno = "EEXIST"
    THEN [fs |-> fs, ret |-> is_directory(fs, abs)]
    ELSE IF first.errno = "ENOENT"
    THEN returned(mkdir(makedirs(fs, parent(abs, getcwd(fs))).fs, abs))
    ELSE [fs |-> fs, ret |-> FALSE]

\* Path::makedirs on the absolute copy of p
makedirsAbs(fs, abs) == makedirsRetry(fs, abs, mkdir(fs, abs))

makedirs(fs, p) == makedirsAbs(fs, absolute(p, getcwd(fs)))

\* Path::touch after its first open()
touchRetry(fs, p, dirOpens, first) ==
    IF first.ok THEN returned(first)
    ELSE returned(openCreate(makedirs(fs, p).fs, p, dirOpens))

touch(fs, p, dirOpens) ==
    touchRetry(fs, p, dirOpens, openCreate(fs, p, dirOpens))

RECURSIVE rmdirs(_, _, _, _)

\* the else-if branch of the loop of Path::rmdirs after remove()
rmdirsRemoved(rm, it, ignore_errors, out) ==
    [fs |-> rm.fs,
     out |-> out \o (IF ~rm.ok /\ ~ignore_errors THEN <<it>> ELSE <<>>)]

\* the body of the loop of Path::rmdirs after rmdirs(*it)
rmdirsChild(sub, it, ignore_errors) ==
    IF ~sub.ret /\ ~ignore_errors
    THEN [fs |-> sub.fs, out |-> sub.out \o <<it>>]
    ELSE IF is_file(sub.fs, it)
    THEN rmdirsRemoved(remove(sub.fs, it), it, ignore_errors, sub.out)
    ELSE [fs |-> sub.fs, out |-> sub.out]

\* a loop body that leaves regular files in place
rmdirsEntryKeepFiles(fs, it, ignore_errors, rev) ==
    IF is_directory(fs, it)
    THEN rmdirsChild(rmdirs(fs, it, FALSE, rev), it, ignore_errors)
    ELSE [fs |-> fs, out |-> <<>>]

\* the body of the loop of Path::rmdirs for the entry it
rmdirsEntry(fs, it, ignore_errors, rev) ==
    IF is_directory(fs, it)
    THEN rmdirsChild(rmdirs(fs, it, FALSE, rev), it, ignore_errors)
    ELSE IF is_file(fs, it)
    THEN rmdirsRemoved(remove(fs, it), it, ignore_errors, <<>>)
    ELSE [fs |-> fs, out |-> <<>>]

RECURSIVE rmdirsLoop(_, _, _, _, _, _)

rmdirsNext(one, subdirs, i, ignore_errors, rev, out) ==
    rmdirsLoop(one.fs, subdirs, i + 1, ignore_errors, rev, out \o one.out)

\* the for loop of Path::rmdirs from subdirs[i] on
rmdirsLoop(fs, subdirs, i, ignore_errors, rev, out) ==
    IF i > Len(subdirs) THEN [fs |-> fs, out |-> out]
    ELSE rmdirsNext(rmdirsEntry(fs, subdirs[i], ignore_errors, rev),
                    subdirs, i, ignore_errors, rev, out)

\* Path::rmdirs after its loop: the removal of p itself
rmdirsLast(last, done) ==
    [fs |-> last.fs, ret |-> last.ok, out |-> done.out]

rmdirsSelf(done, p) == rmdirsLast(remove(done.fs, p), done)

rmdirs(fs, p, ignore_errors, rev) ==
    IF ~is_directory(fs, p) THEN [fs |-> fs, ret |-> FALSE, out |-> <<>>]
    ELSE rmdirsSelf(rmdirsLoop(fs, listdir(fs, p, rev), 1,
                               ignore_errors, rev, <<>>), p)

(***************************************************************************)
(* The path algebra as a state machine: one Path object (the receiver)    *)
(* and the operations applied to it.                                       *)
(***************************************************************************)
Alphabet == {"/", ".", "a"}

\* every buffer over Alphabet of at most n characters
Buffers(n) == UNION {[1..k -> Alphabet] : k \in 0..n}

\* "/../../a/b////c"
ExRootDotDot ==
    <<"/", ".", ".", "/", ".", ".", "/", "a", "/", "b", "/", "/", "/", "/", "c">>

\* "/./././a/./b/../../c"
ExRootDots ==
    <<"/", ".", "/", ".", "/", ".", "/", "a", "/", ".", "/", "b", "/", ".", ".", "/", ".", ".", "/", "c">>

\* "././a/b/c/"
ExDotDot ==
    <<".", "/", ".", "/", "a", "/", "b", "/", "c", "/">>

\* "/hello/how/are/you"
ExHello ==
    <<"/", "h", "e", "l", "l", "o", "/", "h", "o", "w", "/", "a", "r", "e", "/", "y", "o", "u">>

\* "a/../.a"
ExHidden ==
    <<"a", "/", ".", ".", "/", ".", "a">>

\* "../../a/b"
ExOverflow ==
    <<".", ".", "/", ".", ".", "/", "a", "/", "b">>

\* "a/..": every segment is cancelled
ExCancel ==
    <<"a", "/", ".", ".">>

Examples ==
    {ExRootDotDot, ExRootDots, ExDotDot, ExHello, ExHidden, ExOverflow}

WorkDirs == {<<"/">>, <<"/", "w">>}

\* the file system with the root and the working directory only
NewTree(stuck, readonly) ==
    [dirs |-> {Root, CwdNode}, files |-> {}, alive |-> TRUE,
     stuck |-> stuck, readonly |-> readonly]

NoFlags == [ignore_errors |-> FALSE, rev |-> FALSE]

InitTreeIdle ==
    /\ tree = NewTree({}, {})
    /\ ptree = tree
    /\ ret = TRUE
    /\ cout = <<>>
    /\ flags = NoFlags
    /\ steps = 0
    /\ calls = <<>>

Init ==
    /\ path \in Buffers(MaxLen) \cup Examples
    /\ wd \in WorkDirs
    /\ op = "new"
    /\ prevop = "new"
    /\ prev = path
    /\ arg = <<>>
    /\ res = path
    /\ InitTreeIdle

\* p.sanitize()
CallSanitize ==
    /\ path' = sanitize(path, wd)
    /\ res' = path'
    /\ prev' = path
    /\ arg' = <<>>
    /\ op' = "sanitize"
    /\ prevop' = op
    /\ UNCHANGED <<wd, treeVars>>

\* p.up()
CallUp ==
    /\ path' = up(path, wd)
    /\ res' = path'
    /\ prev' = path
    /\ arg' = <<>>
    /\ op' = "up"
    /\ prevop' = op
    /\ UNCHANGED <<wd, treeVars>>

\* p.parent(): up() on a copy, the receiver is const
CallParent ==
    /\ res' = parent(path, wd)
    /\ path' = path
    /\ prev' = path
    /\ arg' = <<>>
    /\ op' = "parent"
    /\ prevop' = op
    /\ UNCHANGED <<wd, treeVars>>

Next == CallSanitize \/ CallUp \/ CallParent

Spec == Init /\ [][Next]_vars

(***************************************************************************)
(* append and operator+ with enumerated segments                           *)
(***************************************************************************)
InitAppend ==
    /\ path \in Buffers(MaxSegLen)
    /\ wd = <<"/", "w">>
    /\ op = "new"
    /\ prevop = "new"
    /\ prev = path
    /\ arg = <<>>
    /\ res = path
    /\ InitTreeIdle

\* p.append(segment), also p << segment
CallAppend(segment) ==
    /\ Len(append(path, segment)) <= MaxBuf
    /\ path' = append(path, segment)
    /\ res' = path'
    /\ prev' = path
    /\ arg' = segment
    /\ op' = "append"
    /\ prevop' = op
    /\ UNCHANGED <<wd, treeVars>>

\* p + segment
CallPlus(segment) ==
    /\ res' = plus(path, segment)
    /\ path' = path
    /\ prev' = path
    /\ arg' = segment
    /\ op' = "plus"
    /\ prevop' = op
    /\ UNCHANGED <<wd, treeVars>>

NextAppend ==
    \E segment \in Buffers(MaxSegLen) : CallAppend(segment) \/ CallPlus(segment)

SpecAppend == InitAppend /\ [][NextAppend]_vars

(***************************************************************************)
(* absolute, equivalent and trailing_slash on enumerated paths             *)
(***************************************************************************)
\* the receivers and the arguments of equivalent: every short buffer, the
\* working directory as Path::cwd() gives it, and "a/.."
QueryBuffers(buf) == Buffers(MaxQueryLen) \cup {cwd(buf), ExCancel}

InitQuery ==
    /\ wd \in WorkDirs
    /\ path \in QueryBuffers(wd)
    /\ op = "new"
    /\ prevop = "new"
    /\ prev = path
    /\ arg = <<>>
    /\ res = path
    /\ InitTreeIdle

\* p.absolute()
CallAbsolute ==
    /\ path' = absolute(path, wd)
    /\ res' = path'
    /\ prev' = path
    /\ arg' = <<>>
    /\ op' = "absolute"
    /\ UNCHANGED <<wd, prevop, treeVars>>

\* p.sanitize() between the queries
CallSanitizeQuery ==
    /\ path' = sanitize(path, wd)
    /\ res' = path'
    /\ prev' = path
    /\ arg' = <<>>
    /\ op' = "sanitize"
    /\ UNCHANGED <<wd, prevop, treeVars>>

\* p.equivalent(other): computed on temporaries, p and other are not written
CallEquivalent(other) ==
    /\ ret' = equivalent(path, other, wd)
    /\ path' = path
    /\ prev' = path
    /\ arg' = other
    /\ op' = "equivalent"
    /\ UNCHANGED <<wd, prevop, res, tree, ptree, cout, flags, steps, calls>>

\* p.trailing_slash()
CallTrailingSlash ==
    /\ ret' = trailing_slash(path)
    /\ path' = path
    /\ prev' = path
    /\ arg' = <<>>
    /\ op' = "trailing_slash"
    /\ UNCHANGED <<wd, prevop, res, tree, ptree, cout, flags, steps, calls>>

NextQuery ==
    \/ CallAbsolute
    \/ CallSanitizeQuery
    \/ \E other \in QueryBuffers(wd) \cup {prev} : CallEquivalent(other)
    \/ CallTrailingSlash

SpecQuery == InitQuery /\ [][NextQuery]_vars

(***************************************************************************)
(* The tree operations as a state machine over one file system            *)
(***************************************************************************)
\* the paths handed to the tree operations: "", "/", ".", "..", "b", "b/",
\* "b/a", "b/b", "b/a/b", "/b", "/b/a", "/a/b", "b/.", "./b", "b//a", "b/.."
TreeArgs ==
    {<<>>,
     <<"/">>,
     <<".">>,
     <<".", ".">>,
     <<"b">>,
     <<"b", "/">>,
     <<"b", "/", "a">>,
     <<"b", "/", "b">>,
     <<"b", "/", "a", "/", "b">>,
     <<"/", "b">>,
     <<"/", "b", "/", "a">>,
     <<"/", "a", "/", "b">>,
     <<"b", "/", ".">>,
     <<".", "/", "b">>,
     <<"b", "/", "/", "a">>,
     <<"b", "/", ".", ".">>}

\* what fails in a run: nothing, the removal of /a/b/a, or any change
\* inside /a/b
Faults ==
    {[stuck |-> {}, readonly |-> {}],
     [stuck |-> {<< <<"a">>, <<"b">>, <<"a">> >>}, readonly |-> {}],
     [stuck |-> {}, readonly |-> {<< <<"a">>, <<"b">> >>}]}

InitTree ==
    /\ \E f \in Faults : tree = NewTree(f.stuck, f.readonly)
    /\ ptree = tree
    /\ ret = TRUE
    /\ cout = <<>>
    /\ flags = NoFlags
    /\ steps = 0
    /\ calls = <<>>
    /\ op = "new"
    /\ prevop = "new"
    /\ arg = <<>>
    /\ path = <<>>
    /\ wd = CwdBuf
    /\ prev = <<>>
    /\ res = <<>>

\* the effect of a tree operation that yielded r
Results(r, reported) ==
    /\ tree' = r.fs
    /\ ret' = r.ret
    /\ cout' = reported

ResultsOut(r) == Results(r, r.out)

\* Path::makedirs(p)
CallMakedirs(p) ==
    /\ steps < MaxSteps
    /\ Results(makedirs(tree, p), <<>>)
    /\ flags' = NoFlags
    /\ ptree' = tree
    /\ arg' = p
    /\ op' = "makedirs"
    /\ steps' = steps + 1
    /\ UNCHANGED <<pathVars, prevop, calls>>

\* Path::touch(p)
CallTouch(p, dirOpens) ==
    /\ steps < MaxSteps
    /\ Results(touch(tree, p, dirOpens), <<>>)
    /\ flags' = NoFlags
    /\ ptree' = tree
    /\ arg' = p
    /\ op' = "touch"
    /\ steps' = steps + 1
    /\ UNCHANGED <<pathVars, prevop, calls>>

\* Path::rmdirs(p, ignore_errors)
CallRmdirs(p, ignore_errors, rev) ==
    /\ steps < MaxSteps
    /\ ResultsOut(rmdirs(tree, p, ignore_errors, rev))
    /\ flags' = [ignore_errors |-> ignore_errors, rev |-> rev]
    /\ ptree' = tree
    /\ arg' = p
    /\ op' = "rmdirs"
    /\ steps' = steps + 1
    /\ UNCHANGED <<pathVars, prevop, calls>>

NextTree ==
    \E p \in TreeArgs :
        \/ CallMakedirs(p)
        \/ \E dirOpens \in BOOLEAN : CallTouch(p, dirOpens)
        \/ \E ignore_errors, rev \in BOOLEAN : CallRmdirs(p, ignore_errors, rev)

SpecTree == InitTree /\ [][NextTree]_vars

(***************************************************************************)
(* Path::makedirs one primitive at a time: calls holds an activation per   *)
(* call in progress, with the absolute copy abs of its argument and the    *)
(* place it has reached ("mkdir": before the first mkdir(); "retry": in    *)
(* the ENOENT branch, once the call on the parent has returned).  steps    *)
(* counts the mkdir() calls made.                                          *)
(***************************************************************************)
\* the entries a file system may hold besides the root
TreeNodes ==
    {<< <<"a">> >>,
     << <<"b">> >>,
     << <<"a">>, <<"b">> >>,
     << <<"a">>, <<"b">>, <<"a">> >>,
     << <<"b">>, <<"a">> >>}

\* the directories in which nothing can be created
ReadOnlys == {{}, {Root}, {<< <<"a">>, <<"b">> >>}}

\* every entry lies in a directory
WellFormed(kind) ==
    \A n \in TreeNodes :
        (kind[n] # "none" /\ Len(n) > 1) => kind[nodeParent(n)] = "dir"

TreeOf(kind, alive, readonly) ==
    [dirs |-> {Root} \cup {n \in TreeNodes : kind[n] = "dir"},
     files |-> {n \in TreeNodes : kind[n] = "file"},
     alive |-> alive,
     stuck |-> {},
     readonly |-> readonly]

\* the file systems over TreeNodes; the working directory of the process
\* is linked only where /a is a directory
TreeStates ==
    {TreeOf(x.kind, x.alive, x.readonly) :
        x \in {y \in [kind : [TreeNodes -> {"none", "dir", "file"}],
                      alive : BOOLEAN,
                      readonly : ReadOnlys] :
                  WellFormed(y.kind) /\ (y.alive => y.kind[CwdNode] = "dir")}}

Activation(abs, pc) == [abs |-> abs, pc |-> pc]

\* the call Path::makedirs(arg) has been entered
InitMakedirs ==
    /\ tree \in TreeStates
    /\ ptree = tree
    /\ arg \in TreeArgs
    /\ calls = <<Activation(absolute(arg, getcwd(tree)), "mkdir")>>
    /\ op = "makedirs"
    /\ prevop = "new"
    /\ ret = FALSE
    /\ cout = <<>>
    /\ flags = NoFlags
    /\ steps = 0
    /\ path = <<>>
    /\ wd = CwdBuf
    /\ prev = <<>>
    /\ res = <<>>

Top == calls[Len(calls)]

Returning == SubSeq(calls, 1, Len(calls) - 1)

\* the innermost activation returns value
Return(fs, value) ==
    /\ tree' = fs
    /\ ret' = value
    /\ calls' = Returning

\* the innermost activation calls makedirs(abs.parent())
Recurse ==
    /\ Len(calls) < MaxCalls
    /\ calls' = Returning \o <<Activation(Top.abs, "retry"),
                               Activation(parent(Top.abs, getcwd(tree)),
                                          "mkdir")>>
    /\ UNCHANGED <<tree, ret>>

\* what follows the first mkdir() of the innermost activation
AfterMkdir(first) ==
    IF first.ok THEN Return(first.fs, TRUE)
    ELSE IF first.errno = "EEXIST"
    THEN Return(tree, is_directory(tree, Top.abs))
    ELSE IF first.errno = "ENOENT" THEN Recurse
    ELSE Return(tree, FALSE)

\* the first mkdir() of the innermost activation
MakedirsMkdir ==
    /\ calls # <<>>
    /\ Top.pc = "mkdir"
    /\ AfterMkdir(mkdir(tree, Top.abs))
    /\ steps' = steps + 1
    /\ UNCHANGED <<pathVars, op, prevop, arg, ptree, cout, flags>>

AfterRetry(second) == Return(second.fs, second.ok)

\* the second mkdir(), once the call on the parent has returned
MakedirsRetry ==
    /\ calls # <<>>
    /\ Top.pc = "retry"
    /\ AfterRetry(mkdir(tree, Top.abs))
    /\ steps' = steps + 1
    /\ UNCHANGED <<pathVars, op, prevop, arg, ptree, cout, flags>>

NextMakedirs == MakedirsMkdir \/ MakedirsRetry

SpecMakedirs == InitMakedirs /\ [][NextMakedirs]_vars

(***************************************************************************)
(* Properties of the path algebra                                          *)
(***************************************************************************)
EndsWithSeparator(p) == Len(p) # 0 /\ p[Len(p)] = separator

HasSeparatorRun(p) ==
    \E i \in 1..(Len(p) - 1) : p[i] = separator /\ p[i + 1] = separator

\* p holds the segment seg between separators or the ends of the buffer
HasSegment(p, seg) ==
    \E i \in 1..Len(p) :
        /\ i + Len(seg) - 1 <= Len(p)
        /\ SubSeq(p, i, i + Len(seg) - 1) = seg
        /\ (i = 1 \/ p[i - 1] = separator)
        /\ (i + Len(seg) - 1 = Len(p) \/ p[i + Len(seg)] = separator)

HasDotSegment(p) == HasSegment(p, <<".">>) \/ HasSegment(p, <<".", ".">>)

\* a relative path with a '..' that finds no earlier segment left to pop
ExceedsDepth(p) == ~is_absolute(p) /\ scanSegments(p, 0, <<>>).restart

\* C1: sanitize() is idempotent: a second sanitize() right after a first
\* leaves the buffer unchanged.
C1_SanitizeIdempotent ==
    [][(op = "sanitize" /\ op' = "sanitize") => path' = path]_vars

\* C2: sanitize() of a relative path yields a relative path unless the path
\* uses more '..' than it has segments to pop, and only then an absolute
\* one; "././a/b/c/" becomes the relative "a/b/c/".
C2_RelativeStaysRelative ==
    (op = "sanitize" /\ ~is_absolute(prev)) =>
        /\ is_absolute(path) <=> ExceedsDepth(prev)
        /\ prev = ExDotDot => path = <<"a", "/", "b", "/", "c", "/">>

\* what C3 says of every absolute x but the trailing separator
AbsoluteSanitized ==
    /\ is_absolute(path)
    /\ ~HasDotSegment(path)
    /\ ~HasSeparatorRun(path)
    /\ sanitize(<<"/", ".", ".">> \o prev, wd) = path
    /\ prev = ExRootDotDot => path = <<"/", "a", "/", "b", "/", "c">>
    /\ prev = ExRootDots => path = <<"/", "c">>

\* C3 as stated: for every absolute x, sanitize(x) is absolute, has no '.'
\* or '..' segment and no run of separators, keeps a trailing separator iff
\* x had one, and '..' at the root is a no-op.
C3_AbsoluteSanitizedKeepsTrailing ==
    (op = "sanitize" /\ is_absolute(prev)) =>
        /\ AbsoluteSanitized
        /\ EndsWithSeparator(path) <=> EndsWithSeparator(prev)

\* C3 amended: as C3, but the trailing separator is kept iff x had one only
\* when some segment survives; when none does the result is the root "/".
C3_AbsoluteSanitized ==
    (op = "sanitize" /\ is_absolute(prev)) =>
        /\ AbsoluteSanitized
        /\ \/ path = <<separator>>
           \/ EndsWithSeparator(path) <=> EndsWithSeparator(prev)

\* sanitize() of the absolute "/../a": the '..' at the root is absorbed
C3_Witness ==
    /\ op = "sanitize"
    /\ prev = <<"/", ".", ".", "/", "a">>
    /\ path = <<"/", "a">>

\* C4 as stated: for every a and all relative b and c (the empty path
\* included), a.append(b).append(c) has the buffer of a.append(join(b, c)).
C4_AppendAssociative ==
    [][(/\ op = "append" /\ op' = "append"
        /\ ~is_absolute(arg) /\ ~is_absolute(arg'))
       => path' = append(prev, join(arg, arg'))]_vars

\* C4 amended: for every a, every non-empty relative b and every relative
\* c, a.append(b).append(c) has the buffer of a.append(join(b, c)).
C4_AppendAssociativeNonEmpty ==
    [][(/\ op = "append" /\ op' = "append"
        /\ arg # <<>>
        /\ ~is_absolute(arg) /\ ~is_absolute(arg'))
       => path' = append(prev, join(arg, arg'))]_vars

\* a second append of a relative c to what an append of "a/" produced
C4_Witness ==
    /\ op = "append" /\ prevop = "append"
    /\ prev = <<"a", "/", "a", "/">>
    /\ arg = <<"a">>
    /\ path = <<"a", "/", "a", "/", "a">>

\* the separators of p: no path has more ancestors than that
Depth(p) == Cardinality({i \in 1..Len(p) : p[i] = separator})

\* p.up() applied n times
RECURSIVE upTimes(_, _, _)
upTimes(p, buf, n) == IF n = 0 THEN p ELSE up(upTimes(p, buf, n - 1), buf)

C10_PlusIsJoin ==
    op = "plus" => (res = join(prev, arg) /\ path = prev)

(***************************************************************************)
(* Properties of the tree operations                                       *)
(***************************************************************************)
\* the nodes from the root down to n
Prefixes(n) == {SubSeq(n, 1, k) : k \in 0..Len(n)}

\* m is n or lies below it
InSubtree(m, n) == Len(m) >= Len(n) /\ SubSeq(m, 1, Len(n)) = n

Entries(fs) == fs.dirs \cup fs.files

\* the node a path without '.' and '..' segments names once absolutized
NodeOf(fs, p) == components(absolute(p, getcwd(fs)))

\* C5: touch(p) on a p whose parent directory is missing makes the
\* directories of parent(p), not p itself, and retries, so that when it
\* returns true p is a regular file; it never leaves a directory made at p.
ParentMissing(fs, p) ==
    /\ ~HasDotSegment(p)
    /\ NodeOf(fs, p) # Root
    /\ nodeParent(NodeOf(fs, p)) \notin fs.dirs
    /\ Prefixes(NodeOf(fs, p)) \cap fs.files = {}

C5_TouchMakesParentOnly ==
    op = "touch" =>
        /\ (ParentMissing(ptree, arg) /\ ret) =>
               /\ is_file(tree, arg)
               /\ nodeParent(NodeOf(ptree, arg)) \in tree.dirs
        /\ ~(is_directory(tree, arg) /\ ~exists(ptree, arg))

\* C6: where no component of p is a non-directory and creating directories
\* is permitted, makedirs(p) for a p without '.' and '..' segments returns
\* true however many trailing components are missing; afterwards the
\* absolutized p and all its ancestors are directories; on an existing
\* directory it changes nothing; every entry that existed is unchanged.
C6_Makedirs ==
    (/\ op = "makedirs"
     /\ ~HasDotSegment(arg)
     /\ Prefixes(NodeOf(ptree, arg)) \cap ptree.files = {}
     /\ Prefixes(nodeParent(NodeOf(ptree, arg))) \cap ptree.readonly = {})
    =>
        /\ ret
        /\ tree.dirs = ptree.dirs \cup Prefixes(NodeOf(ptree, arg))
        /\ tree.files = ptree.files
        /\ tree.alive = ptree.alive
        /\ is_directory(tree, absolute(arg, getcwd(ptree)))
        /\ NodeOf(ptree, arg) \in ptree.dirs => tree = ptree

\* makedirs("b/a/b") with "b" missing: three directories are made
C6_Witness ==
    /\ op = "makedirs"
    /\ arg = <<"b", "/", "a", "/", "b">>
    /\ ret
    /\ Cardinality(ptree.dirs) = 2
    /\ Cardinality(tree.dirs) = 5
    /\ tree.readonly = {}

\* the removal primitives do not fail on p or below it: nothing there is
\* stuck or in a read-only directory, and p is not the root
RemovalWorks(fs, n) ==
    /\ n # Root
    /\ \A m \in Entries(fs) :
           InSubtree(m, n) => m \notin fs.stuck /\ nodeParent(m) \notin fs.readonly

\* C7: for a directory p (named without '.' and '..' segments) holding only
\* directories and regular files, as makedirs and touch make them, and with
\* removal primitives that do not fail, rmdirs(p) returns true, afterwards
\* neither p nor anything below it exists, and every entry outside the
\* subtree of p is unchanged.
C7_Rmdirs ==
    (/\ op = "rmdirs"
     /\ ~HasDotSegment(arg)
     /\ is_directory(ptree, arg)
     /\ RemovalWorks(ptree, NodeOf(ptree, arg)))
    =>
        /\ ret
        /\ ~exists(tree, arg)
        /\ tree.dirs =
               {m \in ptree.dirs : ~InSubtree(m, NodeOf(ptree, arg))}
        /\ tree.files =
               {m \in ptree.files : ~InSubtree(m, NodeOf(ptree, arg))}

\* rmdirs("b") of a chain b/a made by makedirs, b/b being a file made by
\* touch
C7_Witness ==
    /\ op = "rmdirs"
    /\ arg = <<"b">>
    /\ ret
    /\ << <<"a">>, <<"b">>, <<"a">> >> \in ptree.dirs
    /\ << <<"a">>, <<"b">>, <<"b">> >> \in ptree.files
    /\ << <<"a">>, <<"b">> >> \notin tree.dirs

\* the node the entry it of a listing names
EntryNode(fs, it) == lookup(fs, it).at.n

\* C8: in rmdirs(p, ignoreErrors) with ignoreErrors false, a child that
\* fails to be removed aborts the operation: the children listed after it
\* are not processed, and p itself is not removed.
C8_ChildFailureAborts ==
    (/\ op = "rmdirs"
     /\ ~flags.ignore_errors
     /\ is_directory(ptree, arg))
    =>
        \A i \in 1..Len(listdir(ptree, arg, flags.rev)) :
            exists(tree, listdir(ptree, arg, flags.rev)[i]) =>
                /\ exists(tree, arg)
                /\ \A j \in (i + 1)..Len(listdir(ptree, arg, flags.rev)) :
                       \A m \in Entries(ptree) :
                           InSubtree(m, EntryNode(ptree,
                               listdir(ptree, arg, flags.rev)[j]))
                           => m \in Entries(tree)

(***************************************************************************)
(* Properties of the queries                                               *)
(***************************************************************************)
\* C11: the empty path and cwd() are equivalent in both directions though
\* not string-equal, the empty path made absolute is string-equal to cwd(),
\* equivalent() leaves the receiver's buffer as it was, and equivalent() is
\* reflexive and symmetric for every pair of paths under one working
\* directory.
C11_Equivalent ==
    /\ op = "equivalent" =>
           /\ path = prev
           /\ ret = equivalent(arg, prev, wd)
           /\ arg = prev => ret
           /\ (prev = <<>> /\ arg = cwd(wd)) => (ret /\ prev # arg)
           /\ (prev = cwd(wd) /\ arg = <<>>) => (ret /\ prev # arg)
    /\ (op = "absolute" /\ prev = <<>>) => path = cwd(wd)

\* the empty path asked whether it is equivalent to cwd() = "/w/"
C11_Witness ==
    /\ op = "equivalent"
    /\ prev = <<>>
    /\ wd = <<"/", "w">>
    /\ arg = <<"/", "w", "/">>
    /\ ret

\* C12: trailing_slash() is true exactly when the buffer is not empty and
\* its last character is the separator; it is false for the empty path.
C12_TrailingSlash ==
    op = "trailing_slash" => (ret <=> EndsWithSeparator(path))

\* C14: a sanitized copy of x is equivalent to x: equivalent() asked of
\* sanitize(x) about x itself answers true.
C14_SanitizePreservesEquivalence ==
    [][(op = "sanitize" /\ op' = "equivalent" /\ arg' = prev) => ret']_vars

(***************************************************************************)
(* Termination of makedirs                                                 *)
(***************************************************************************)
\* every nested call of makedirs has a shorter path than its caller, and
\* no activation on "/" is in the ENOENT branch
CallsShrink ==
    /\ \A i \in 1..(Len(calls) - 1) :
           Len(calls[i + 1].abs) < Len(calls[i].abs)
    /\ \A i \in 1..Len(calls) :
           calls[i].pc = "retry" => calls[i].abs # <<separator>>

\* the mkdir() calls a makedirs on the absolute path abs can make: two for
\* each of abs and the directories above it
MkdirBound(abs) == 2 * (Depth(abs) + 1)

\* C13: makedirs(p) terminates for every path and every file system: the
\* recursion onto parent() after ENOENT strictly shortens the path, the
\* ENOENT branch is never taken at the root "/", the nesting never reaches
\* the bound of the model (so a call in progress can always go on), and
\* the number of mkdir() calls made is bounded by the length of the path,
\* so that every call returns.
C13_MakedirsTerminates ==
    /\ CallsShrink
    /\ Len(calls) < MaxCalls
    /\ steps <= MkdirBound(absolute(arg, getcwd(ptree)))
    /\ calls # <<>> => steps < MkdirBound(absolute(arg, getcwd(ptree)))

\* makedirs("b/a/b") has returned true after three nested calls made the
\* three missing directories
C13_Witness ==
    /\ calls = <<>>
    /\ arg = <<"b", "/", "a", "/", "b">>
    /\ ret
    /\ Cardinality(tree.dirs) = Cardinality(ptree.dirs) + 3

====
